---- MODULE Spec2Model ----
(***************************************************************************)
(* A model of the JSON event encoder of src/json.go: the Logger level      *)
(* gate, the pooled Event with its byte buffer, the field appenders, the   *)
(* string escaper, the time formatter and the finalizers Msg/Msgf/print.   *)
(*                                                                         *)
(* A byte is a string: a printable ASCII byte is the one-character string  *)
(* of itself, any other byte is named by its hex code, "<0a>" for 0x0a.    *)
(* A byte slice is a sequence of bytes.  One more item, Blob, stands for   *)
(* BlobLen consecutive bytes 'x': it lets a payload of 64 KiB be written   *)
(* down, and counts for BlobLen bytes wherever a length is taken.          *)
(***************************************************************************)
EXTENDS Integers, Sequences, FiniteSets, TLC

VARIABLES
    loggers,    \* the Logger values: Level, Timestamp, Caller, TimeField, ...
    events,     \* the Event objects made by epool.New and not yet garbage
    epool,      \* sync.Pool of *Event: how often each Event is in the pool
    bbs,        \* cap(b.B) of the bb objects made by bbpool.New
    bbpool,     \* sync.Pool of *bb: the bb objects in the pool
    chain,      \* per call path: the *Event its call chain holds, and how
                \* that chain was built
    last,       \* the call just made, when it is a field append, Discard,
                \* Msg or Msgf: what it was given and what it did
    trace,      \* the Write and osExit calls the call just made made, in order
    status,     \* "running", "exited" (osExit) or "panicked"
    calls       \* number of header and SetLevel calls made so far

vars == <<loggers, events, epool, bbs, bbpool, chain, last, trace, status, calls>>

----------------------------------------------------------------------------
(* Bounds of the model. *)

\* number of concurrent logging call paths (goroutines)
NProcs == 2
\* number of header calls in one behaviour
MaxRecords == 2
\* number of field-append calls in one call chain
MaxFields == 2
\* number of Event objects alive at once
MaxEvents == 3
\* number of bb objects alive at once
MaxBBs == 2
\* number of SetLevel calls in one behaviour
MaxSetLevel == 1
\* length of the byte sequences given to the escaper
MaxStrLen == 2
\* escaped fields per record in the program of SpecEscape
MaxEscapes == 1
\* how many bytes of its array, from the start, an Event in the pool is
\* remembered with: header reads spare capacity only in Event.time, below
\* len(`{"<TimeField>":`) + len(timebuf)
SpareWindow == 40

----------------------------------------------------------------------------
(* Bytes. *)

Quote == "\""
Backslash == "\\"

\* the items that stand for BlobLen and for MidLen bytes 'x'
Blob == "<x*65536>"
Mid == "<x*60000>"

\* const bbcap = 1 << 16
bbcap == 65536

BlobLen == bbcap

Width(b) == IF b = Blob THEN BlobLen ELSE IF b = Mid THEN 60000 ELSE 1

RECURSIVE ByteLen(_)
\* len() of a byte slice
ByteLen(s) == IF s = <<>> THEN 0 ELSE Width(Head(s)) + ByteLen(Tail(s))

\* the code of the bytes that are not printable ASCII, and of the printable
\* ones the escaper or a JSON parser treats specially
Code(b) ==
    CASE b = "<00>" -> 0
      [] b = "<01>" -> 1
      [] b = "<08>" -> 8
      [] b = "<09>" -> 9
      [] b = "<0a>" -> 10
      [] b = "<0c>" -> 12
      [] b = "<0d>" -> 13
      [] b = "<1f>" -> 31
      [] b = Quote -> 34
      [] b = "'" -> 39
      [] b = "/" -> 47
      [] b = "<" -> 60
      [] b = Backslash -> 92
      [] b = "<7f>" -> 127
      [] b = "<c3>" -> 195
      [] b = "<a9>" -> 169
      [] b = "<ff>" -> 255
      [] OTHER -> 120   \* any other byte of the model behaves like 'x'

\* byte('0' + n): the ASCII character n places after '0'
Chr0(n) ==
    IF n \in 0..15
    THEN <<"0","1","2","3","4","5","6","7","8","9",":",";","<","=",">","?">>[n + 1]
    ELSE "<??>"

hex == <<"0","1","2","3","4","5","6","7","8","9","a","b","c","d","e","f">>

\* s[from..to) of Go, on a sequence indexed from 1: the items from+1 .. to
Slice(s, from, to) == SubSeq(s, from + 1, to)

----------------------------------------------------------------------------
(* The string escaper. *)

\* var escapes [256]bool: the bytes that send string/bytes to escape
escapes == {Quote, "<", "'", Backslash, "<08>", "<0c>", "<0a>", "<0d>", "<09>", "<00>"}

\* the bytes one case of the switch of escape appends for b
Substitute(b) ==
    CASE b = Quote -> <<Backslash, Quote>>
      [] b = Backslash -> <<Backslash, Backslash>>
      [] b = "<0a>" -> <<Backslash, "n">>
      [] b = "<0d>" -> <<Backslash, "r">>
      [] b = "<09>" -> <<Backslash, "t">>
      [] b = "<0c>" -> <<Backslash, "u", "0", "0", "0", "c">>
      [] b = "<08>" -> <<Backslash, "u", "0", "0", "0", "8">>
      [] b = "<" -> <<Backslash, "u", "0", "0", "3", "c">>
      [] b = "'" -> <<Backslash, "u", "0", "0", "2", "7">>
      [] b = "<00>" -> <<Backslash, "u", "0", "0", "0", "0">>

\* the cases of the switch of escape
Switched == {Quote, Backslash, "<0a>", "<0d>", "<09>", "<0c>", "<08>", "<", "'", "<00>"}

RECURSIVE escapeLoop(_, _, _, _)
\* the loop of escape from index i on, j the start of the pending plain run
escapeLoop(buf, b, i, j) ==
    IF i >= Len(b)
    THEN buf \o Slice(b, j, Len(b))
    ELSE IF b[i + 1] \in Switched
         THEN escapeLoop(buf \o Slice(b, j, i) \o Substitute(b[i + 1]), b, i + 1, i + 1)
         ELSE escapeLoop(buf, b, i + 1, j)

\* func (e *Event) escape(b []byte): e.buf afterwards
escape(buf, b) == escapeLoop(buf \o <<Quote>>, b, 0, 0) \o <<Quote>>

\* func (e *Event) bytes(b []byte): e.buf afterwards
bytes(buf, b) ==
    IF \E i \in 1..Len(b) : b[i] \in escapes
    THEN escape(buf, b)
    ELSE buf \o <<Quote>> \o b \o <<Quote>>

\* func (e *Event) string(s string): e.buf afterwards
string(buf, s) ==
    IF \E i \in 1..Len(s) : s[i] \in escapes
    THEN escape(buf, s)
    ELSE buf \o <<Quote>> \o s \o <<Quote>>

\* func (e *Event) key(key string): e.buf afterwards
key(buf, k) == buf \o <<",", Quote>> \o k \o <<Quote, ":">>

----------------------------------------------------------------------------
(* Wall time.  walltime() returns sec int64 and nsec int32.  A wall time is *)
(* kept as [day, sod, nsec]: sec = day * 86400 + sod with 0 <= sod < 86400,*)
(* day the (possibly negative) number of days since 1970-01-01.  sec itself *)
(* exceeds the integers of the model checker, so where the code computes   *)
(* with sec the model computes with a sign and a magnitude hi * 10^6 + lo. *)

\* |sec| of a wall time, as [hi, lo] with value hi * 10^6 + lo
Magnitude(D, S) ==
    LET dk == D \div 1000
        dr == D % 1000
        low == dk * 400000 + dr * 86400 + S
    IN  [hi |-> dk * 86 + low \div 1000000, lo |-> low % 1000000]

SecNeg(t) == t.day < 0

\* the magnitude of sec
SecAbs(t) ==
    IF t.day >= 0
    THEN Magnitude(t.day, t.sod)
    ELSE Magnitude(-t.day - 1, 86400 - t.sod)

\* |x| % 100 and |x| / 100 on a magnitude
Mod100(w) == w.lo % 100
Div100(w) == [hi |-> w.hi \div 100, lo |-> (w.hi % 100) * 10000 + w.lo \div 100]

\* const smallsString
smallsString == <<
    "0","0","0","1","0","2","0","3","0","4","0","5","0","6","0","7","0","8","0","9",
    "1","0","1","1","1","2","1","3","1","4","1","5","1","6","1","7","1","8","1","9",
    "2","0","2","1","2","2","2","3","2","4","2","5","2","6","2","7","2","8","2","9",
    "3","0","3","1","3","2","3","3","3","4","3","5","3","6","3","7","3","8","3","9",
    "4","0","4","1","4","2","4","3","4","4","4","5","4","6","4","7","4","8","4","9",
    "5","0","5","1","5","2","5","3","5","4","5","5","5","6","5","7","5","8","5","9",
    "6","0","6","1","6","2","6","3","6","4","6","5","6","6","6","7","6","8","6","9",
    "7","0","7","1","7","2","7","3","7","4","7","5","7","6","7","7","7","8","7","9",
    "8","0","8","1","8","2","8","3","8","4","8","5","8","6","8","7","8","8","8","9",
    "9","0","9","1","9","2","9","3","9","4","9","5","9","6","9","7","9","8","9","9">>
\* smallsString[i] of Go
smalls(i) == smallsString[i + 1]

\* the five pairs of digits header takes off sec, least significant first:
\* is = sec % 100 * 2; sec /= 100
SecPairs(w) ==
    LET w1 == Div100(w)
        w2 == Div100(w1)
        w3 == Div100(w2)
        w4 == Div100(w3)
    IN  <<Mod100(w), Mod100(w1), Mod100(w2), Mod100(w3), Mod100(w4)>>

\* Go's % keeps the sign of the dividend: with sec < 0 a pair that is not 0
\* makes the index into smallsString negative, and the index expression panics
TimestampPanics(t) ==
    SecNeg(t) /\ \E k \in 1..5 : SecPairs(SecAbs(t))[k] # 0

\* the Timestamp branch of header (json.go 242-269): e.buf afterwards
timestampHeader(t) ==
    LET base == <<"{", Quote, "t", "i", "m", "e", Quote, ":",
                  "0", "4", "6", "5", "4", "0", "8", "0", "0", "0", "0", "0", "0">>
        a == t.nsec \div 1000000
        is0 == (a % 100) * 2
        pr == SecPairs(SecAbs(t))
    IN  [base EXCEPT
            ![20 + 1] = smalls(is0 + 1),
            ![19 + 1] = smalls(is0),
            ![18 + 1] = Chr0(a \div 100),
            ![17 + 1] = smalls(pr[1] * 2 + 1),
            ![16 + 1] = smalls(pr[1] * 2),
            ![15 + 1] = smalls(pr[2] * 2 + 1),
            ![14 + 1] = smalls(pr[2] * 2),
            ![13 + 1] = smalls(pr[3] * 2 + 1),
            ![12 + 1] = smalls(pr[3] * 2),
            ![11 + 1] = smalls(pr[4] * 2 + 1),
            ![10 + 1] = smalls(pr[4] * 2),
            ![9 + 1] = smalls(pr[5] * 2 + 1),
            ![8 + 1] = smalls(pr[5] * 2)]

\* time.absClock of the Go runtime, on the second of the day
absClock(sod) ==
    LET hour == sod \div 3600
        rest == sod - hour * 3600
        min == rest \div 60
    IN  [hour |-> hour, min |-> min, sec |-> rest - min * 60]

isLeap(year) == year % 4 = 0 /\ (year % 100 # 0 \/ year % 400 = 0)

daysBefore == <<0, 31, 59, 90, 120, 151, 181, 212, 243, 273, 304, 334, 365>>

\* the month and day of absDate from the day of the year, after the leap day
\* has been taken out
MonthDay(year, day) ==
    LET m0 == day \div 31
        end == daysBefore[m0 + 1 + 1]
        month == IF day >= end THEN m0 + 1 ELSE m0
        begin == IF day >= end THEN end ELSE daysBefore[m0 + 1]
    IN  [year |-> year, month |-> month + 1, day |-> day - begin + 1]

\* time.absDate of the Go runtime.  abs = sec + 9223372028715321600 counts
\* from the year -292277022399, which is 1 modulo 400: the 400-year cycles
\* before the year 1 are left out of the day count here (d0 counts from
\* 0001-01-01) and out of the year added at the end (1).
absDate(unixDay) ==
    LET d0 == unixDay + 719162
        n400 == d0 \div 146097
        d1 == d0 - 146097 * n400
        q100 == d1 \div 36524
        n100 == q100 - q100 \div 4
        d2 == d1 - 36524 * n100
        n4 == d2 \div 1461
        d3 == d2 - 1461 * n4
        q1 == d3 \div 365
        n1 == q1 - q1 \div 4
        yday == d3 - 365 * n1
        year == 400 * n400 + 100 * n100 + 4 * n4 + n1 + 1
    IN  IF isLeap(year) /\ yday = 31 + 29 - 1
        THEN [year |-> year, month |-> 2, day |-> 29]
        ELSE IF isLeap(year) /\ yday > 31 + 29 - 1
             THEN MonthDay(year, yday - 1)
             ELSE MonthDay(year, yday)

\* const timebuf
timebuf == <<Quote, "2", "0", "0", "6", "-", "0", "1", "-", "0", "2", "T",
             "1", "5", ":", "0", "4", ":", "0", "5", ".", "9", "9", "9", "Z", Quote>>

\* the assignments of Event.time (json.go 750-807) on e.buf, n the length of
\* e.buf before it was extended, for the milliseconds ms, the date and the
\* clock
timeFill(base, n, ms, date, clk) ==
    LET ms1 == ms \div 10
        ms2 == ms1 \div 10
        y1 == date.year \div 10
        y2 == y1 \div 10
        y3 == y2 \div 10
        mo == date.month \div 10
        dd == date.day \div 10
        hh == clk.hour \div 10
        mm == clk.min \div 10
        ss == clk.sec \div 10
    IN  [base EXCEPT
            ![n + 25 + 1] = Quote,
            ![n + 24 + 1] = "Z",
            ![n + 23 + 1] = Chr0(ms - 10 * ms1),
            ![n + 22 + 1] = Chr0(ms1 - 10 * ms2),
            ![n + 21 + 1] = Chr0(ms2),
            ![n + 20 + 1] = ".",
            ![n + 4 + 1] = Chr0(date.year - 10 * y1),
            ![n + 3 + 1] = Chr0(y1 - 10 * y2),
            ![n + 2 + 1] = Chr0(y2 - 10 * y3),
            ![n + 1 + 1] = Chr0(y3),
            ![n + 1] = Quote,
            ![n + 7 + 1] = Chr0(date.month - 10 * mo),
            ![n + 6 + 1] = Chr0(mo),
            ![n + 5 + 1] = "-",
            ![n + 10 + 1] = Chr0(date.day - 10 * dd),
            ![n + 9 + 1] = Chr0(dd),
            ![n + 8 + 1] = "-",
            ![n + 13 + 1] = Chr0(clk.hour - 10 * hh),
            ![n + 12 + 1] = Chr0(hh),
            ![n + 11 + 1] = "T",
            ![n + 16 + 1] = Chr0(clk.min - 10 * mm),
            ![n + 15 + 1] = Chr0(mm),
            ![n + 14 + 1] = ":",
            ![n + 19 + 1] = Chr0(clk.sec - 10 * ss),
            ![n + 18 + 1] = Chr0(ss),
            ![n + 17 + 1] = ":"]

\* an Event.time that rounds the milliseconds to the nearest
timeDigitsRounded(base, n, t) ==
    timeFill(base, n, (t.nsec + 500000) \div 1000000, absDate(t.day), absClock(t.sod))

\* an Event.time that does not assign the byte before the milliseconds
timeDigitsUnwritten(base, n, t) ==
    [timeFill(base, n, t.nsec \div 1000000, absDate(t.day), absClock(t.sod))
        EXCEPT ![n + 20 + 1] = base[n + 20 + 1]]

\* Event.time on e.buf once it is extended: a = int(nsec) / 1000000
\* (json.go 756), absDate and absClock of sec (json.go 764-766)
timeDigits(base, n, t) ==
    timeFill(base, n, t.nsec \div 1000000, absDate(t.day), absClock(t.sod))

RECURSIVE TakeBytes(_, _)
\* the first k bytes of the spare capacity whose old content is s; what was
\* never written is the zero byte make() left there
TakeBytes(s, k) ==
    IF k = 0 THEN <<>>
    ELSE IF s = <<>> THEN <<"<00>">> \o TakeBytes(s, k - 1)
    ELSE IF Head(s) \in {Blob, Mid} THEN <<"x">> \o TakeBytes(s, k - 1)
    ELSE <<Head(s)>> \o TakeBytes(Tail(s), k - 1)

RECURSIVE DropBytes(_, _)
\* the old content of the spare capacity after k more bytes of it are in use
DropBytes(s, k) ==
    IF k <= 0 \/ s = <<>> THEN s
    ELSE IF Width(Head(s)) <= k THEN DropBytes(Tail(s), k - Width(Head(s)))
    ELSE s

\* func (e *Event) time(sec, nsec): e.buf afterwards; old is what the spare
\* capacity of e.buf holds from earlier uses
time(buf, old, cap, t) ==
    LET n == Len(buf)
    IN  IF n + Len(timebuf) < cap
        THEN timeDigits(buf \o TakeBytes(old, Len(timebuf)), n, t)
        ELSE timeDigits(buf \o timebuf, n, t)

----------------------------------------------------------------------------
(* Loggers, levels and sinks. *)

DebugLevel == 0
InfoLevel == 1
WarnLevel == 2
ErrorLevel == 3
FatalLevel == 4

Levels == {DebugLevel, InfoLevel, WarnLevel, ErrorLevel, FatalLevel}

Procs == 1..NProcs

\* the sinks: os.Stderr and one io.Writer of the program; NoWriter is a nil
\* Writer field
Stderr == "os.Stderr"
Custom == "Writer"
NoWriter == "nil"

\* var hostname, _ = os.Hostname()
hostname == <<"h", "1">>

\* var DefaultLogger
DefaultLogger ==
    [Level |-> DebugLevel, Caller |-> 0, TimeField |-> <<>>, TimeFormat |-> <<>>,
     Timestamp |-> FALSE, HostField |-> <<>>, Writer |-> Stderr]

\* the loggers of the program: DefaultLogger and one Logger value of its own
Loggers == {"DefaultLogger", "l"}

RECURSIVE Dec(_)
\* strconv.AppendInt(nil, n, 10) for n >= 0
Dec(n) == IF n < 10 THEN <<Chr0(n)>> ELSE Dec(n \div 10) \o <<Chr0(n % 10)>>

\* strconv.AppendInt(nil, n, 10)
AppendInt(n) == IF n < 0 THEN <<"-">> \o Dec(-n) ELSE Dec(n)

\* the layout "15:04", the one custom TimeFormat of the model
Layout1504 == <<"1", "5", ":", "0", "4">>

\* timeNow().AppendFormat(nil, layout) for the layout "15:04", in UTC
AppendFormat(layout, t) ==
    LET clk == absClock(t.sod)
    IN  <<Chr0(clk.hour \div 10), Chr0(clk.hour % 10), ":",
          Chr0(clk.min \div 10), Chr0(clk.min % 10)>>

\* the gate of header (json.go 228-230): the record is filtered out
\* a gate that lets the level just below the minimum through
gateOffByOne(L, level) == level + 1 < L.Level

gateClosed(L, level) == level < L.Level

\* the time part of header (json.go 240-285): e.buf afterwards
headerTime(L, t, old, cap) ==
    IF L.Timestamp
    THEN timestampHeader(t)
    ELSE LET b1 == IF L.TimeField = <<>>
                   THEN <<"{", Quote, "t", "i", "m", "e", Quote, ":">>
                   ELSE <<"{", Quote>> \o L.TimeField \o <<Quote, ":">>
         IN  IF L.TimeFormat = <<>>
             THEN time(b1, DropBytes(old, ByteLen(b1)), cap, t)
             ELSE b1 \o <<Quote>> \o AppendFormat(L.TimeFormat, t) \o <<Quote>>

\* the level part of header (json.go 286-298): what the switch appends
headerLevel(level) ==
    CASE level = DebugLevel ->
            <<",", Quote, "l", "e", "v", "e", "l", Quote, ":", Quote, "d", "e", "b", "u", "g", Quote>>
      [] level = InfoLevel ->
            <<",", Quote, "l", "e", "v", "e", "l", Quote, ":", Quote, "i", "n", "f", "o", Quote>>
      [] level = WarnLevel ->
            <<",", Quote, "l", "e", "v", "e", "l", Quote, ":", Quote, "w", "a", "r", "n", Quote>>
      [] level = ErrorLevel ->
            <<",", Quote, "l", "e", "v", "e", "l", Quote, ":", Quote, "e", "r", "r", "o", "r", Quote>>
      [] level = FatalLevel ->
            <<",", Quote, "l", "e", "v", "e", "l", Quote, ":", Quote, "f", "a", "t", "a", "l", Quote>>
      [] OTHER -> <<>>

\* the hostname part of header (json.go 299-306): what it appends
headerHost(L) ==
    IF L.HostField # <<>>
    THEN <<",", Quote>> \o L.HostField \o <<Quote, ":", Quote>> \o hostname \o <<Quote>>
    ELSE <<>>

\* e.buf when header returns e; old and cap are those of e.buf[:0]
headerBuf(L, level, t, old, cap) ==
    headerTime(L, t, old, cap) \o headerLevel(level) \o headerHost(L)

\* the writer header gives the Event (json.go 235-239)
headerWriter(L) == IF L.Writer # NoWriter THEN L.Writer ELSE Stderr

\* the stack and the exit flag header gives the Event (json.go 233-234)
headerFlag(level) == level = FatalLevel

\* what runtime.Caller reports to the entry points: this file, at line 7
CallerFile == <<"/", "s", "/", "m", ".", "g", "o">>

RECURSIVE LastIndex(_, _)
\* strings.LastIndex(s, c) for a one-byte c, -1 when c is not in s
LastIndex(s, c) ==
    IF s = <<>> THEN -1
    ELSE IF s[Len(s)] = c THEN Len(s) - 1
    ELSE LastIndex(SubSeq(s, 1, Len(s) - 1), c)

\* func (e *Event) caller(_, file, line, _): e.buf afterwards
caller(buf, file, line) ==
    LET i == LastIndex(file, "/")
        base == IF i >= 0 THEN Slice(file, i + 1, Len(file)) ELSE file
    IN  buf \o <<",", Quote, "c", "a", "l", "l", "e", "r", Quote, ":", Quote>>
            \o base \o <<":">> \o AppendInt(line) \o <<Quote>>

----------------------------------------------------------------------------
(* Buffers and pools. *)

RECURSIVE PowerOfTwo(_, _)
\* the least c * 2^k that is at least n
PowerOfTwo(n, c) == IF c >= n THEN c ELSE PowerOfTwo(n, 2 * c)

\* the size the allocator of the runtime gives an array of n bytes: a size
\* class, here a power of two, up to 32 KiB, whole pages of 8 KiB above
RoundUpSize(n) ==
    IF n <= 32768 THEN PowerOfTwo(n, 8) ELSE ((n + 8191) \div 8192) * 8192

\* cap() of a slice after append made it need bytes long: unchanged when the
\* bytes fit; otherwise append moves the slice to a new array, of the size
\* needed or of twice the old capacity, rounded up by the allocator
Caps(cap, need) ==
    IF need <= cap
    THEN {cap}
    ELSE {RoundUpSize(need)} \cup (IF 2 * cap >= need THEN {RoundUpSize(2 * cap)} ELSE {})

\* an id of events that holds no Event
NoEvent == [buf |-> <<>>, old |-> <<>>, cap |-> -1, w |-> NoWriter,
            stack |-> FALSE, exit |-> FALSE, made |-> FALSE]

\* epool.New (json.go 205-209): buf: make([]byte, 0, 500)
epoolNew == [buf |-> <<>>, old |-> <<>>, cap |-> 500, w |-> NoWriter,
             stack |-> FALSE, exit |-> FALSE, made |-> TRUE]

EventIds == 1..MaxEvents
BBIds == 1..MaxBBs

\* an Event as it lies in the pool: what its array holds, from the start
pooled(ev) ==
    LET arr == ev.buf \o ev.old
    IN  [ev EXCEPT !.buf = SubSeq(arr, 1, IF Len(arr) < SpareWindow THEN Len(arr) ELSE SpareWindow),
                   !.old = <<>>]

\* the Event after one call has appended to e.buf up to buf, in an array of
\* capacity cap: a new array holds nothing old
appended(ev, buf, cap) ==
    [ev EXCEPT !.buf = buf, !.cap = cap,
               !.old = IF cap = ev.cap
                       THEN DropBytes(ev.old, ByteLen(buf) - ByteLen(ev.buf))
                       ELSE <<>>]

\* a Get that may return an Event that is not in the pool
epoolGetAny ==
    {id \in EventIds :
        \/ events[id].made
        \/ \A j \in EventIds : j < id => events[j].made}

\* what epool.Get() can return: an Event of the pool, or a new one
\* (sync.Pool may call New although the pool is not empty); a new Event
\* takes the least id that names no Event
epoolGet ==
    {id \in EventIds :
        \/ epool[id] > 0
        \/ ~events[id].made /\ \A j \in EventIds : j < id => events[j].made}

\* a Put without a guard
putAlways(cap) == cap >= 0

\* the Put guard of Discard, Msg, Interface, print and Msgf
\* (json.go 693, 719, 955, 974, 991)
putBack(cap) == cap <= bbcap

\* what bbpool.Get() can return: a bb of the pool, or a new one, which
\* takes the least id that names no bb
bbpoolGet ==
    {id \in BBIds :
        \/ id \in bbpool
        \/ bbs[id] < 0 /\ \A j \in BBIds : j < id => bbs[j] >= 0}

\* bbpool.New (json.go 928-930) makes a bb with a nil B: cap(b.B) = 0
bbCap(id) == IF bbs[id] < 0 THEN 0 ELSE bbs[id]

\* bbpool and bbs after the bb id, now with capacity cap, is put back or not
bbRelease(id, cap) ==
    IF putBack(cap)
    THEN /\ bbpool' = bbpool \cup {id}
         /\ bbs' = [bbs EXCEPT ![id] = cap]
    ELSE /\ bbpool' = bbpool \ {id}
         /\ bbs' = [bbs EXCEPT ![id] = -1]

----------------------------------------------------------------------------
(* The call chains.  A call path starts a chain with an entry point, that  *)
(* is header and caller; every later call is made on the *Event the call   *)
(* before it returned, which is a live Event or nil.                       *)

T0 == [day |-> 0, sod |-> 0, nsec |-> 0]

IdleChain ==
    [st |-> "idle", e |-> 0, l |-> "DefaultLogger", level |-> DebugLevel, t |-> T0,
     n |-> 0, keys |-> <<>>, inert |-> FALSE]

NoLast ==
    [op |-> "none", proc |-> 0, nil |-> FALSE, inert |-> FALSE, n |-> 0,
     l |-> "DefaultLogger", level |-> DebugLevel, t |-> T0, keys |-> <<>>,
     val |-> <<>>, enc |-> <<>>, msg |-> <<>>, err |-> FALSE,
     e |-> 0, put |-> 0, cap |-> 0, stack |-> FALSE, exit |-> FALSE,
     w |-> NoWriter, bb |-> 0, bbcap |-> 0, bbput |-> 0]

CallerKey == <<"c", "a", "l", "l", "e", "r">>

BufOf(p) == IF chain[p].st = "live" THEN events[chain[p].e].buf ELSE <<>>

\* func (l *Logger) WithLevel(level Level) (e *Event), and with a fixed level
\* Debug, Info, Warn, Error, Fatal: header (json.go 227-308), then caller.
\* t is what walltime() and timeNow() return.
WithLevel(p, l, level, t) ==
    LET L == loggers[l]
        started == [st |-> "nil", e |-> 0, l |-> l, level |-> level, t |-> t, n |-> 0,
                    keys |-> <<>>, inert |-> level < L.Level]
    IN
    /\ status = "running"
    /\ chain[p].st = "idle"
    /\ calls.header < MaxRecords
    /\ calls' = [calls EXCEPT !.header = @ + 1]
    /\ last' = NoLast
    /\ trace' = <<>>
    /\ UNCHANGED <<loggers, bbs, bbpool>>
    /\ IF gateClosed(L, level)
       THEN /\ chain' = [chain EXCEPT ![p] = started]
            /\ UNCHANGED <<events, epool, status>>
       ELSE \E id \in epoolGet :
            LET got == IF epool[id] > 0 THEN events[id] ELSE epoolNew
                e0 == [got EXCEPT !.buf = <<>>, !.old = got.buf \o got.old,
                                  !.stack = headerFlag(level),
                                  !.exit = headerFlag(level),
                                  !.w = headerWriter(L)]
            IN
            /\ epool' = [epool EXCEPT ![id] = IF @ > 0 THEN @ - 1 ELSE 0]
            /\ IF L.Timestamp /\ TimestampPanics(t)
               THEN /\ status' = "panicked"
                    /\ events' = [events EXCEPT ![id] = e0]
                    /\ UNCHANGED chain
               ELSE LET hdr == headerBuf(L, level, t, e0.old, e0.cap)
                        buf == IF L.Caller > 0
                               THEN caller(hdr, CallerFile, 7)
                               ELSE hdr
                    IN  \E cap \in Caps(e0.cap, ByteLen(buf)) :
                        /\ events' = [events EXCEPT ![id] = appended(e0, buf, cap)]
                        /\ chain' = [chain EXCEPT ![p] =
                               [started EXCEPT !.st = "live", !.e = id,
                                   !.keys = IF L.Caller > 0 THEN <<CallerKey>> ELSE <<>>]]
                        /\ UNCHANGED status

\* func (l *Logger) SetLevel(level Level)
SetLevel(l, level) ==
    /\ status = "running"
    /\ calls.set < MaxSetLevel
    /\ loggers[l].Level # level
    /\ calls' = [calls EXCEPT !.set = @ + 1]
    /\ loggers' = [loggers EXCEPT ![l].Level = level]
    /\ last' = NoLast
    /\ trace' = <<>>
    /\ UNCHANGED <<events, epool, bbs, bbpool, chain, status>>

\* what last records of a field-append call op on a live Event: the value
\* passed and the bytes the call left in e.buf after the key
Appended(p, op, k, val, nb) ==
    [NoLast EXCEPT !.op = op, !.proc = p, !.e = chain[p].e, !.val = val,
                   !.enc = Slice(nb, Len(key(BufOf(p), k)), Len(nb))]

\* a field-append method op called on the *Event of p with key k and value
\* val: on nil it returns nil, on a live Event it leaves nb in e.buf and
\* returns the Event
Field(p, op, k, val, nb) ==
    /\ status = "running"
    /\ chain[p].st \in {"live", "nil"}
    /\ chain[p].n < MaxFields
    /\ IF chain[p].st = "nil"
       THEN /\ chain' = [chain EXCEPT ![p].n = @ + 1]
            /\ last' = NoLast
            /\ UNCHANGED events
       ELSE \E cap \in Caps(events[chain[p].e].cap, ByteLen(nb)) :
            /\ last' = [Appended(p, op, k, val, nb) EXCEPT !.cap = cap]
            /\ events' = [events EXCEPT ![chain[p].e] = appended(@, nb, cap)]
            /\ chain' = [chain EXCEPT ![p].n = @ + 1, ![p].keys = Append(@, k)]
    /\ trace' = <<>>
    /\ UNCHANGED <<loggers, epool, status, calls>>

\* func (e *Event) Str(key string, val string) *Event
Str(p, k, v) ==
    /\ Field(p, "Str", k, v, string(key(BufOf(p), k), v))
    /\ UNCHANGED <<bbs, bbpool>>

\* func (e *Event) Bytes(key string, val []byte) *Event
Bytes(p, k, v) ==
    /\ Field(p, "Bytes", k, v, bytes(key(BufOf(p), k), v))
    /\ UNCHANGED <<bbs, bbpool>>

\* func (e *Event) Int64(key string, i int64) *Event
Int64(p, k, i) ==
    /\ Field(p, "Int64", k, <<>>, key(BufOf(p), k) \o AppendInt(i))
    /\ UNCHANGED <<bbs, bbpool>>

\* func (e *Event) RawJSON(key string, b []byte) *Event
RawJSON(p, k, b) ==
    /\ Field(p, "RawJSON", k, b, key(BufOf(p), k) \o b)
    /\ UNCHANGED <<bbs, bbpool>>

ErrorKey == <<"e", "r", "r", "o", "r">>

\* func (e *Event) Err(err error) *Event; nilErr: err == nil, text: err.Error()
Err(p, nilErr, text) ==
    /\ Field(p, "Err", ErrorKey, text,
             IF nilErr
             THEN BufOf(p) \o <<",", Quote, "e", "r", "r", "o", "r", Quote, ":", "n", "u", "l", "l">>
             ELSE string(BufOf(p) \o <<",", Quote, "e", "r", "r", "o", "r", Quote, ":">>, text))
    /\ UNCHANGED <<bbs, bbpool>>

MarshalingError ==
    <<"m", "a", "r", "s", "h", "a", "l", "i", "n", "g", " ", "e", "r", "r", "o", "r", ":", " ">>

\* func (e *Event) Interface(key string, i interface{}) *Event; ok and out:
\* whether enc.Encode(i) succeeds and what it then writes to b, text:
\* err.Error() when it fails
Interface(p, k, ok, out, text) ==
    /\ status = "running"
    /\ chain[p].st \in {"live", "nil"}
    /\ chain[p].n < MaxFields
    /\ trace' = <<>>
    /\ UNCHANGED <<loggers, epool, status, calls>>
    /\ IF chain[p].st = "nil"
       THEN /\ chain' = [chain EXCEPT ![p].n = @ + 1]
            /\ last' = NoLast
            /\ UNCHANGED <<events, bbs, bbpool>>
       ELSE \E id \in bbpoolGet :
            \E bcap \in Caps(bbCap(id), IF ok THEN ByteLen(out) ELSE 0) :
            LET nb == IF ok
                      THEN bytes(key(BufOf(p), k), out)
                      ELSE string(key(BufOf(p), k), MarshalingError \o text)
            IN  \E cap \in Caps(events[chain[p].e].cap, ByteLen(nb)) :
                /\ events' = [events EXCEPT ![chain[p].e] = appended(@, nb, cap)]
                /\ chain' = [chain EXCEPT ![p].n = @ + 1, ![p].keys = Append(@, k)]
                /\ bbRelease(id, bcap)
                /\ last' = [Appended(p, "Interface", k, out, nb) EXCEPT
                               !.cap = cap, !.bb = id, !.bbcap = bcap,
                               !.bbput = IF putBack(bcap) THEN 1 ELSE 0]

\* func (e *Event) Stack() *Event
Stack(p) ==
    /\ status = "running"
    /\ chain[p].st \in {"live", "nil"}
    /\ chain[p].n < MaxFields
    /\ chain' = [chain EXCEPT ![p].n = @ + 1]
    /\ IF chain[p].st = "nil"
       THEN UNCHANGED events
       ELSE events' = [events EXCEPT ![chain[p].e].stack = TRUE]
    /\ last' = NoLast
    /\ trace' = <<>>
    /\ UNCHANGED <<loggers, epool, bbs, bbpool, status, calls>>

\* what last records of the chain of p when op ends or cuts it
Ended(p, op) ==
    [NoLast EXCEPT !.op = op, !.proc = p, !.nil = chain[p].st = "nil",
                   !.inert = chain[p].inert, !.n = chain[p].n,
                   !.l = chain[p].l, !.level = chain[p].level, !.t = chain[p].t,
                   !.keys = chain[p].keys, !.e = chain[p].e]

\* a Discard that puts the Event back and still returns it
discardKeepsEvent(p) ==
    LET e == chain[p].e
    IN  /\ epool' = [epool EXCEPT ![e] = @ + 1]
        /\ events' = [events EXCEPT ![e] = pooled(@)]
        /\ chain' = [chain EXCEPT ![p].n = @ + 1]
        /\ last' = [Ended(p, "Discard") EXCEPT !.put = 1, !.cap = events[e].cap]

\* func (e *Event) Discard() *Event: the Event goes back to the pool when
\* its buffer is small enough, and in either case the call returns nil
discard(p) ==
    LET e == chain[p].e
    IN  /\ IF putBack(events[e].cap)
           THEN /\ epool' = [epool EXCEPT ![e] = @ + 1]
                /\ events' = [events EXCEPT ![e] = pooled(@)]
           ELSE /\ events' = [events EXCEPT ![e] = NoEvent]
                /\ UNCHANGED epool
        /\ chain' = [chain EXCEPT ![p].st = "nil", ![p].e = 0, ![p].inert = TRUE]
        /\ last' = [Ended(p, "Discard") EXCEPT
                        !.put = IF putBack(events[e].cap) THEN 1 ELSE 0,
                        !.cap = events[e].cap]

Discard(p) ==
    /\ status = "running"
    /\ chain[p].st \in {"live", "nil"}
    /\ IF chain[p].st = "nil"
       THEN /\ chain[p].n < MaxFields
            /\ chain' = [chain EXCEPT ![p].n = @ + 1]
            /\ last' = Ended(p, "Discard")
            /\ UNCHANGED <<events, epool>>
       ELSE discard(p)
    /\ trace' = <<>>
    /\ UNCHANGED <<loggers, bbs, bbpool, status, calls>>

\* func stacks(all bool) []byte: the text of the stack traces, which the
\* model keeps as a mark of which trace it is
stacks(all) == IF all THEN <<"g", "*">> ELSE <<"g", "1">>

\* one Write call on the sink w, and the osExit call
WriteCall(w, data, err) == [op |-> "Write", w |-> w, data |-> data, err |-> err, code |-> 0]
ExitCall(code) == [op |-> "osExit", w |-> NoWriter, data |-> <<>>, err |-> FALSE, code |-> code]

\* Msg up to the Write (json.go 706-710): e.buf afterwards
msgBuf(buf, msg) ==
    (IF msg # <<>>
     THEN string(buf \o <<",", Quote, "m", "e", "s", "s", "a", "g", "e", Quote, ":">>, msg)
     ELSE buf) \o <<"}", "<0a>">>

\* a Msg that ends the process before it writes the stack traces
msgExitsFirst(ev, data, err) ==
    <<WriteCall(ev.w, data, err)>>
    \o (IF ev.exit THEN <<ExitCall(255)>> ELSE <<>>)
    \o (IF ev.stack
        THEN <<WriteCall(ev.w, stacks(FALSE), err), WriteCall(ev.w, stacks(TRUE), err)>>
        ELSE <<>>)

\* a Msg that writes the record again when the Write returned an error
msgRetries(ev, data, err) ==
    <<WriteCall(ev.w, data, err)>>
    \o (IF err THEN <<WriteCall(ev.w, data, err)>> ELSE <<>>)
    \o (IF ev.stack
        THEN <<WriteCall(ev.w, stacks(FALSE), err), WriteCall(ev.w, stacks(TRUE), err)>>
        ELSE <<>>)
    \o (IF ev.exit THEN <<ExitCall(255)>> ELSE <<>>)

\* the calls Msg makes once e.buf is complete (json.go 711-718), in order;
\* the error a Write returns is dropped
msgCalls(ev, data, err) ==
    <<WriteCall(ev.w, data, err)>>
    \o (IF ev.stack
        THEN <<WriteCall(ev.w, stacks(FALSE), err), WriteCall(ev.w, stacks(TRUE), err)>>
        ELSE <<>>)
    \o (IF ev.exit THEN <<ExitCall(255)>> ELSE <<>>)

\* Msg on a live Event (json.go 706-721); bb: the scratch buffer of the
\* caller, for last.  os.Exit ends the process: nothing after it runs.
msgLive(p, op, msg, err, bb) ==
    LET e == chain[p].e
        ev == events[e]
        buf == msgBuf(ev.buf, msg)
    IN  \E cap \in Caps(ev.cap, ByteLen(buf)) :
        LET done == [Ended(p, op) EXCEPT !.msg = msg, !.err = err, !.cap = cap,
                         !.stack = ev.stack, !.exit = ev.exit, !.w = ev.w,
                         !.bb = bb.id, !.bbcap = bb.cap]
        IN
        /\ trace' = msgCalls(ev, buf, err)
        /\ IF ev.exit
           THEN /\ status' = "exited"
                /\ events' = [events EXCEPT ![e] = appended(ev, buf, cap)]
                /\ last' = done
                /\ UNCHANGED <<epool, chain>>
           ELSE /\ IF putBack(cap)
                   THEN /\ epool' = [epool EXCEPT ![e] = @ + 1]
                        /\ events' = [events EXCEPT ![e] = pooled(appended(ev, buf, cap))]
                   ELSE /\ events' = [events EXCEPT ![e] = NoEvent]
                        /\ UNCHANGED epool
                /\ last' = [done EXCEPT
                               !.put = IF putBack(cap) THEN 1 ELSE 0,
                               !.bbput = IF bb.id # 0 /\ putBack(bb.cap) THEN 1 ELSE 0]
                /\ chain' = [chain EXCEPT ![p] = IdleChain]
                /\ UNCHANGED status

\* Msg, Msgf and print on a nil Event return at once
msgNil(p, op, msg) ==
    /\ chain' = [chain EXCEPT ![p] = IdleChain]
    /\ last' = [Ended(p, op) EXCEPT !.msg = msg]
    /\ trace' = <<>>
    /\ UNCHANGED <<events, epool, status>>

\* func (e *Event) Msg(msg string); err: whether the Write calls return an error
Msg(p, msg, err) ==
    /\ status = "running"
    /\ chain[p].st \in {"live", "nil"}
    /\ IF chain[p].st = "nil"
       THEN msgNil(p, "Msg", msg)
       ELSE msgLive(p, "Msg", msg, err, [id |-> 0, cap |-> 0])
    /\ UNCHANGED <<loggers, bbs, bbpool, calls>>

\* func (e *Event) Msgf(format string, v ...interface{}); out: what
\* fmt.Fprintf(b, format, v...) writes to b
Msgf(p, out, err) ==
    /\ status = "running"
    /\ chain[p].st \in {"live", "nil"}
    /\ UNCHANGED <<loggers, calls>>
    /\ IF chain[p].st = "nil"
       THEN /\ msgNil(p, "Msgf", out)
            /\ UNCHANGED <<bbs, bbpool>>
       ELSE \E id \in bbpoolGet :
            \E cap \in Caps(bbCap(id), ByteLen(out)) :
               /\ msgLive(p, "Msgf", out, err, [id |-> id, cap |-> cap])
               /\ IF events[chain[p].e].exit
                  THEN /\ bbpool' = bbpool \ {id}
                       /\ bbs' = [bbs EXCEPT ![id] = cap]
                  ELSE bbRelease(id, cap)

\* Print and Printf, of the package (l is DefaultLogger) and of a Logger
\* (json.go 109-124, 187-202): header at the level l.Level, caller when
\* l.Caller > 0, then print or Msgf, which write out, what fmt.Fprint or
\* fmt.Fprintf gives, as the message.  The call path is idle before and
\* after: the Event never leaves the call.
printWith(p, l, op, out, t, err) ==
    LET L == loggers[l]
        level == L.Level
        ended == [NoLast EXCEPT !.op = op, !.proc = p, !.l = l, !.level = level,
                                !.t = t, !.msg = out, !.err = err]
    IN
    /\ status = "running"
    /\ chain[p].st = "idle"
    /\ calls.header < MaxRecords
    /\ calls' = [calls EXCEPT !.header = @ + 1]
    /\ UNCHANGED <<loggers, chain>>
    /\ IF gateClosed(L, level)
       THEN /\ last' = [ended EXCEPT !.nil = TRUE, !.inert = TRUE]
            /\ trace' = <<>>
            /\ UNCHANGED <<events, epool, bbs, bbpool, status>>
       ELSE \E id \in epoolGet :
            LET got == IF epool[id] > 0 THEN events[id] ELSE epoolNew
                e0 == [got EXCEPT !.buf = <<>>, !.old = got.buf \o got.old,
                                  !.stack = headerFlag(level),
                                  !.exit = headerFlag(level),
                                  !.w = headerWriter(L)]
                taken == [epool EXCEPT ![id] = IF @ > 0 THEN @ - 1 ELSE 0]
            IN
            IF L.Timestamp /\ TimestampPanics(t)
            THEN /\ status' = "panicked"
                 /\ events' = [events EXCEPT ![id] = e0]
                 /\ epool' = taken
                 /\ last' = [ended EXCEPT !.e = id]
                 /\ trace' = <<>>
                 /\ UNCHANGED <<bbs, bbpool>>
            ELSE LET hdr == headerBuf(L, level, t, e0.old, e0.cap)
                     buf == IF L.Caller > 0 THEN caller(hdr, CallerFile, 7) ELSE hdr
                     data == msgBuf(buf, out)
                 IN  \E bid \in bbpoolGet :
                     \E bcap \in Caps(bbCap(bid), ByteLen(out)) :
                     \E cap1 \in Caps(e0.cap, ByteLen(buf)) :
                     \E cap \in Caps(cap1, ByteLen(data)) :
                     LET ev == appended(appended(e0, buf, cap1), data, cap)
                         done == [ended EXCEPT !.e = id, !.cap = cap,
                                     !.keys = IF L.Caller > 0 THEN <<CallerKey>> ELSE <<>>,
                                     !.stack = ev.stack, !.exit = ev.exit, !.w = ev.w,
                                     !.bb = bid, !.bbcap = bcap]
                     IN
                     /\ trace' = msgCalls(ev, data, err)
                     /\ IF ev.exit
                        THEN /\ status' = "exited"
                             /\ events' = [events EXCEPT ![id] = ev]
                             /\ epool' = taken
                             /\ bbpool' = bbpool \ {bid}
                             /\ bbs' = [bbs EXCEPT ![bid] = bcap]
                             /\ last' = done
                        ELSE /\ IF putBack(cap)
                                THEN /\ epool' = [taken EXCEPT ![id] = @ + 1]
                                     /\ events' = [events EXCEPT ![id] = pooled(ev)]
                                ELSE /\ events' = [events EXCEPT ![id] = NoEvent]
                                     /\ epool' = taken
                             /\ bbRelease(bid, bcap)
                             /\ last' = [done EXCEPT
                                            !.put = IF putBack(cap) THEN 1 ELSE 0,
                                            !.bbput = IF putBack(bcap) THEN 1 ELSE 0]
                             /\ UNCHANGED status

\* func Print(v ...interface{}) and func (l *Logger) Print(v ...interface{})
LoggerPrint(p, l, out, t, err) == printWith(p, l, "Print", out, t, err)

\* func Printf(format string, v ...interface{}) and the method of Logger
Printf(p, l, out, t, err) == printWith(p, l, "Printf", out, t, err)

----------------------------------------------------------------------------
(* The program: two loggers, NProcs call paths logging concurrently. *)

\* the Logger values the program may have built for l
LoggerValues ==
    [Level : Levels, Caller : {0, 1}, TimeField : {<<>>, <<"t", "s">>},
     TimeFormat : {<<>>, Layout1504}, Timestamp : BOOLEAN,
     HostField : {<<>>, <<"h", "o", "s", "t">>}, Writer : {NoWriter, Custom}]

InitWith(values) ==
    /\ loggers \in [Loggers -> values \cup {DefaultLogger}]
    /\ loggers["DefaultLogger"] = DefaultLogger
    /\ loggers["l"] \in values
    /\ events = [id \in EventIds |-> NoEvent]
    /\ epool = [id \in EventIds |-> 0]
    /\ bbs = [id \in BBIds |-> -1]
    /\ bbpool = {}
    /\ chain = [p \in Procs |-> IdleChain]
    /\ last = NoLast
    /\ trace = <<>>
    /\ status = "running"
    /\ calls = [header |-> 0, set |-> 0]

\* 2019-07-10T05:35:54.277Z, the wall time of the end-to-end scenario
T2019 == [day |-> 18087, sod |-> 20154, nsec |-> 277999999]

KeyK == <<"k">>

\* the Logger value of l in the program of Spec
SpecLoggers == {[DefaultLogger EXCEPT !.Level = InfoLevel, !.Writer = Custom]}

Init == InitWith(SpecLoggers)

\* NProcs call paths log concurrently on l
Next ==
    \/ \E p \in Procs, level \in {DebugLevel, WarnLevel} : WithLevel(p, "l", level, T2019)
    \/ \E p \in Procs : Stack(p)
    \/ \E p \in Procs : Discard(p)
    \/ \E p \in Procs : Msg(p, <<>>, FALSE)

Spec == Init /\ [][Next]_vars

\* the levels the program of SpecPath logs at
SpecLevels == {DebugLevel, WarnLevel, FatalLevel}

\* what the encoder and fmt hand over in the program of SpecPath: 60000
\* bytes, which take a buffer to the capacity 65536, and 65537 bytes
PathOuts == {<<Mid>>, <<Blob, "x">>}

\* one call path logs record after record on l, whose level changes
NextPath ==
    \/ \E level \in SpecLevels : WithLevel(1, "l", level, T2019)
    \/ \E level \in {InfoLevel, ErrorLevel} : SetLevel("l", level)
    \/ Interface(1, KeyK, TRUE, <<Blob, "x">>, <<>>)
    \/ Discard(1)
    \/ \E err \in BOOLEAN : Msg(1, <<"h", "i">>, err)
    \/ \E out \in PathOuts : Msgf(1, out, FALSE)

SpecPath == Init /\ [][NextPath]_vars

----------------------------------------------------------------------------
(* Claims about the finalize calls and the pools. *)

Finalizers == {"Msg", "Msgf"}

\* what the last call wrote to a sink
Writes == SelectSeq(trace, LAMBDA c : c.op = "Write")

\* C1: a chain whose header call found the level below the minimum of the
\* Logger, or on which Discard was called, holds the nil Event from then on:
\* every later method call on it returns nil again, and the finalize call on
\* it writes nothing, returns nothing to the pool and does not end the
\* process.
C1_InertChainWritesNothing ==
    /\ \A p \in Procs : chain[p].inert => chain[p].st = "nil" /\ chain[p].e = 0
    /\ last.inert =>
          /\ last.nil
          /\ trace = <<>>
          /\ last.put = 0 /\ last.bbput = 0 /\ last.e = 0
          /\ status = "running"

\* a finalize call made on a chain below the minimum, after field calls on it
C1_Witness ==
    /\ last.op \in Finalizers
    /\ last.inert
    /\ last.n > 0
    /\ last.level < loggers[last.l].Level

\* how many times the Event of the last call is in the pool after it, when
\* the call was a Discard or a finalize call on a live Event
Returned == epool[last.e]

EndsChain == last.op \in Finalizers \cup {"Discard"} /\ ~last.nil

\* C2 as stated: every Event header acquired goes back to the pool exactly
\* once, by Discard or by the finalize call.
C2_ReturnedExactlyOnce ==
    /\ \A id \in EventIds : epool[id] <= 1
    /\ EndsChain => Returned = 1

\* C2: an Event goes back to the pool at most once and never while a chain
\* holds it; Discard and the finalize call return it exactly once when the
\* capacity of its buffer is at most 65536 and the call does not end the
\* process, and not at all otherwise.
C2_ReturnedAtMostOnce ==
    /\ \A id \in EventIds : epool[id] <= 1
    /\ \A p \in Procs : chain[p].st = "live" => epool[chain[p].e] = 0
    /\ EndsChain =>
          Returned = IF last.cap <= 65536 /\ (last.op = "Discard" \/ last.level # FatalLevel)
                     THEN 1 ELSE 0

\* a finalize call that returned the Event
C2_Witness ==
    /\ EndsChain
    /\ last.op = "Msg"
    /\ last.cap <= 65536
    /\ last.level = WarnLevel
    /\ Returned = 1

\* the Events and scratch buffers that lie in a pool
PooledEvents == {id \in EventIds : epool[id] > 0}

\* C3 as stated: a buffer whose capacity is at or above 65536 is never put
\* back, so every pooled buffer has a capacity below 65536.
C3_PooledBelowCeiling ==
    /\ \A id \in PooledEvents : events[id].cap < 65536
    /\ \A id \in bbpool : bbs[id] < 65536

\* C3: the Event buffer and the scratch buffer are put back when their
\* capacity is at most 65536 and dropped when it is above, so no pooled
\* buffer, and none a later acquire returns, has a capacity above 65536.
C3_PooledAtMostCeiling ==
    /\ \A id \in PooledEvents : events[id].cap <= 65536
    /\ \A id \in bbpool : bbs[id] <= 65536
    /\ \A p \in Procs :
          chain[p].st = "live" /\ chain[p].n = 0 /\ status = "running" =>
              events[chain[p].e].cap <= 65536
    /\ EndsChain /\ status = "running" =>
          (last.e \in PooledEvents <=> last.cap <= 65536)
    /\ last.bb # 0 /\ status = "running" =>
          (last.bb \in bbpool <=> last.bbcap <= 65536)

\* a Msgf that dropped both of its buffers, after one that kept both
C3_Witness ==
    /\ last.op = "Msgf"
    /\ last.bbcap > 65536 /\ last.bb \notin bbpool
    /\ last.cap > 65536 /\ last.e \notin PooledEvents
    /\ calls.header = MaxRecords

\* C4: when the finalize call finds the exit flag set, it writes the record,
\* then the stack trace of the calling goroutine, then the stack traces of
\* all goroutines, each with one Write on the sink of the Event, and then
\* ends the process with exit code 255; nothing else ends the process.
C4_FatalWritesStacksThenExits ==
    /\ last.op \in Finalizers /\ ~last.nil /\ last.level = FatalLevel =>
          /\ Len(trace) = 4
          /\ \A i \in 1..3 : trace[i].op = "Write" /\ trace[i].w = loggers[last.l].Writer
          /\ trace[1].data = events[last.e].buf
          /\ trace[2].data = stacks(FALSE)
          /\ trace[3].data = stacks(TRUE)
          /\ trace[4].op = "osExit" /\ trace[4].code = 255
          /\ status = "exited"
    /\ \A i \in 1..Len(trace) :
          trace[i].op = "osExit" => i = Len(trace) /\ last.level = FatalLevel
    /\ status = "exited" => trace # <<>> /\ trace[Len(trace)].op = "osExit"

\* a fatal record was finalized
C4_Witness ==
    /\ last.op = "Msg"
    /\ last.level = FatalLevel
    /\ status = "exited"
    /\ Len(Writes) = 3

\* the calls of a finalize call that wrote the record once
OneRecordWrite ==
    /\ Writes # <<>>
    /\ Writes[1].data[Len(Writes[1].data)] = "<0a>"
    /\ \A i \in 2..Len(Writes) : Writes[i].data \in {stacks(FALSE), stacks(TRUE)}

\* C5: when the Write of the record returns an error, the finalize call does
\* what it does when the Write succeeds: it writes the record once, it does
\* not panic, it returns, and the Event goes back to the pool under the same
\* condition.
C5_WriteErrorIgnored ==
    last.op \in Finalizers /\ ~last.nil /\ last.err =>
        /\ OneRecordWrite
        /\ status # "panicked"
        /\ last.level # FatalLevel =>
              /\ status = "running"
              /\ chain[last.proc].st = "idle"
              /\ (last.e \in PooledEvents <=> last.cap <= 65536)

\* a record whose Write failed, after which the Event is in the pool
C5_Witness ==
    /\ last.op = "Msg"
    /\ last.err
    /\ trace[1].err
    /\ last.e \in PooledEvents

----------------------------------------------------------------------------
(* The records.  A scanner reads the members of the object a record is,    *)
(* byte by byte, without any knowledge of how the record was put together. *)

RECURSIVE ScanString(_, _)
\* s[i] follows an opening quote: the index of the quote that closes the
\* string, 0 when there is none
ScanString(s, i) ==
    IF i > Len(s) THEN 0
    ELSE IF s[i] = Quote THEN i
    ELSE IF s[i] = Backslash THEN ScanString(s, i + 2)
    ELSE ScanString(s, i + 1)

RECURSIVE ScanPlain(_, _)
\* the index of the last byte of the number or literal that starts at s[i]
ScanPlain(s, i) ==
    IF i > Len(s) \/ s[i] \in {",", "}"} THEN i - 1 ELSE ScanPlain(s, i + 1)

\* the index of the last byte of the value that starts at s[i], 0 when the
\* value does not end
ScanValue(s, i) ==
    IF i > Len(s) THEN 0
    ELSE IF s[i] = Quote THEN ScanString(s, i + 1)
    ELSE ScanPlain(s, i)

NoMembers == [ok |-> FALSE, members |-> <<>>, rest |-> <<>>]

RECURSIVE ScanMembers(_, _, _)
\* the members of the object from s[i] on, where a member starts; rest:
\* what follows the last member
ScanMembers(s, i, acc) ==
    IF i > Len(s) \/ s[i] # Quote THEN NoMembers
    ELSE LET k == ScanString(s, i + 1)
         IN  IF k = 0 \/ k + 1 > Len(s) \/ s[k + 1] # ":" THEN NoMembers
             ELSE LET v == ScanValue(s, k + 2)
                  IN  IF v = 0 \/ v < k + 2 THEN NoMembers
                      ELSE LET got == Append(acc, [key |-> SubSeq(s, i + 1, k - 1),
                                                   value |-> SubSeq(s, k + 2, v)])
                           IN  IF v < Len(s) /\ s[v + 1] = ","
                               THEN ScanMembers(s, v + 2, got)
                               ELSE [ok |-> TRUE, members |-> got,
                                     rest |-> SubSeq(s, v + 1, Len(s))]

\* the members of the object that starts with s, which need not be closed
Members(s) ==
    IF s = <<>> \/ s[1] # "{" THEN NoMembers ELSE ScanMembers(s, 2, <<>>)

\* the keys of the members, in the order of the bytes
MemberKeys(s) == [i \in 1..Len(Members(s).members) |-> Members(s).members[i].key]

----------------------------------------------------------------------------
(* The program of SpecRecord: one call path logs on a Logger l built with  *)
(* any of the time, host and caller settings, at any level.                *)

\* a value of the type Level that is none of the five named levels
OtherLevel == FatalLevel + 1

KeyN == <<"n">>
FieldText == <<"a", Quote>>

RecordLoggers ==
    {L \in LoggerValues :
        /\ L.Level = DebugLevel
        /\ L.Writer = Custom
        /\ L.TimeFormat = <<>> \/ (L.TimeField = <<>> /\ ~L.Timestamp)
        /\ L.Caller = 1 => L.HostField # <<>>}

InitRecord == InitWith(RecordLoggers)

NextRecord ==
    \/ \E level \in {InfoLevel, ErrorLevel, OtherLevel} : WithLevel(1, "l", level, T2019)
    \/ \E k \in {KeyK, KeyN} : Str(1, k, FieldText)
    \/ Int64(1, KeyN, 42)
    \/ \E msg \in {<<>>, <<"h", "i">>} : Msg(1, msg, FALSE)

SpecRecord == InitRecord /\ [][NextRecord]_vars

\* the key of the time member of the records of the Logger L
TimeKey(L) ==
    IF L.Timestamp \/ L.TimeField = <<>> THEN <<"t", "i", "m", "e">> ELSE L.TimeField

\* the keys the claim gives the record the last call wrote
C6_Expected ==
    LET L == loggers[last.l]
    IN  <<TimeKey(L), <<"l", "e", "v", "e", "l">>>>
        \o (IF L.HostField # <<>> THEN <<L.HostField>> ELSE <<>>)
        \o last.keys
        \o (IF last.msg # <<>> THEN <<<<"m", "e", "s", "s", "a", "g", "e">>>> ELSE <<>>)

\* C6: every record Msg writes, for a header of any level that passes the
\* gate and any sequence of field-append calls, has the time key first, the
\* level key second, the host key next when HostField is set, the fields in
\* the order of the append calls with repeated keys kept, the message key
\* last and only for a non-empty message, and ends with "}" and a newline.
C6_KeyOrder ==
    last.op \in Finalizers /\ ~last.nil =>
        /\ Len(Writes) >= 1
        /\ Members(Writes[1].data).ok
        /\ Members(Writes[1].data).rest = <<"}", "<0a>">>
        /\ MemberKeys(Writes[1].data) = C6_Expected

\* the same for the records of the five named levels
C6_KeyOrderNamedLevels == last.level \in Levels => C6_KeyOrder

----------------------------------------------------------------------------
(* The program of SpecEscape: one call path logs records with a string or  *)
(* a []byte field of any bytes.  A JSON string parser after RFC 8259 reads *)
(* back what the escaper wrote.                                            *)

\* the bytes of the inputs: the ten the escaper substitutes, other control
\* bytes, DEL, a two-byte UTF-8 character, a byte that is never UTF-8
EscapeBytes ==
    {"a", "/", Quote, Backslash, "<0a>", "<0d>", "<09>", "<0c>", "<08>", "<", "'",
     "<00>", "<01>", "<1f>", "<7f>", "<c3>", "<a9>", "<ff>"}

EscapeInputs == UNION {[1..n -> EscapeBytes] : n \in 0..MaxStrLen}

NextEscape ==
    \/ WithLevel(1, "l", WarnLevel, T2019)
    \/ \E v \in EscapeInputs : chain[1].n < MaxEscapes /\ Str(1, KeyK, v)
    \/ \E v \in EscapeInputs : chain[1].n < MaxEscapes /\ Bytes(1, KeyK, v)
    \/ Msg(1, <<>>, FALSE)

SpecEscape == Init /\ [][NextEscape]_vars

\* the value of a hexadecimal digit, -1 for any other byte
HexValue(c) ==
    IF \E i \in 1..16 : hex[i] = c
    THEN (CHOOSE i \in 1..16 : hex[i] = c) - 1
    ELSE IF c \in {"A", "B", "C", "D", "E", "F"}
         THEN (CHOOSE i \in 11..16 : <<"A", "B", "C", "D", "E", "F">>[i - 10] = c) - 1
         ELSE -1

\* the byte with the code n, among the bytes of EscapeBytes
ByteOf(n) ==
    IF \E b \in EscapeBytes : Code(b) = n
    THEN <<CHOOSE b \in EscapeBytes : Code(b) = n>>
    ELSE <<>>

\* the byte a two-character escape sequence stands for
Unescaped(d) ==
    CASE d = Quote -> <<Quote>>
      [] d = Backslash -> <<Backslash>>
      [] d = "/" -> <<"/">>
      [] d = "b" -> <<"<08>">>
      [] d = "f" -> <<"<0c>">>
      [] d = "n" -> <<"<0a>">>
      [] d = "r" -> <<"<0d>">>
      [] d = "t" -> <<"<09>">>
      [] OTHER -> <<>>

NotJSON == [ok |-> FALSE, bytes |-> <<>>]

RECURSIVE ParseChars(_, _, _)
\* the characters of a JSON string from s[i] on, up to the closing quote,
\* which must be the last byte of s; acc: the bytes read so far
ParseChars(s, i, acc) ==
    IF i > Len(s) THEN NotJSON
    ELSE IF s[i] = Quote
         THEN IF i = Len(s) THEN [ok |-> TRUE, bytes |-> acc] ELSE NotJSON
    ELSE IF s[i] = Backslash
         THEN IF i + 1 > Len(s) THEN NotJSON
              ELSE IF s[i + 1] = "u"
                   THEN IF i + 5 > Len(s) \/ \E k \in 2..5 : HexValue(s[i + k]) < 0
                        THEN NotJSON
                        ELSE LET n == 4096 * HexValue(s[i + 2]) + 256 * HexValue(s[i + 3])
                                      + 16 * HexValue(s[i + 4]) + HexValue(s[i + 5])
                             IN  IF ByteOf(n) = <<>> \/ n > 127 THEN NotJSON
                                 ELSE ParseChars(s, i + 6, acc \o ByteOf(n))
                   ELSE IF Unescaped(s[i + 1]) = <<>> THEN NotJSON
                        ELSE ParseChars(s, i + 2, acc \o Unescaped(s[i + 1]))
    ELSE IF Code(s[i]) < 32 THEN NotJSON
    ELSE IF Code(s[i]) < 128 THEN ParseChars(s, i + 1, Append(acc, s[i]))
    ELSE IF s[i] = "<c3>" /\ i + 1 <= Len(s) /\ s[i + 1] = "<a9>"
         THEN ParseChars(s, i + 2, acc \o <<"<c3>", "<a9>">>)
    ELSE NotJSON

\* a JSON string read back: whether s is one, and the bytes it stands for
ParseString(s) ==
    IF Len(s) < 2 \/ s[1] # Quote THEN NotJSON ELSE ParseChars(s, 2, <<>>)

\* C8: for every byte sequence, what Event.string and Event.bytes append is
\* a JSON string, and a JSON string parser reads the original bytes back
\* from it: for the ten escaped bytes, for any other control byte and for
\* bytes that are not ASCII.
C8_EscapeRoundTrip ==
    last.op \in {"Str", "Bytes"} =>
        /\ ParseString(last.enc).ok
        /\ ParseString(last.enc).bytes = last.val

\* the bytes every JSON parser takes as they are, or as an escape sequence
\* the escaper writes
EscapedOrPlain(v) ==
    \A i \in 1..Len(v) :
        \/ v[i] \in escapes
        \/ Code(v[i]) \in 32..127
        \/ v[i] = "<c3>" /\ i < Len(v) /\ v[i + 1] = "<a9>"
        \/ v[i] = "<a9>" /\ i > 1 /\ v[i - 1] = "<c3>"

\* the round trip of the inputs without other control bytes and without
\* malformed UTF-8
C8_RoundTripOfText == EscapedOrPlain(last.val) => C8_EscapeRoundTrip

----------------------------------------------------------------------------
(* The program of SpecTime: one call path logs records at wall times from  *)
(* year 0000 to year 9999 on a Logger l with any time setting.  The time   *)
(* values are compared with a calendar and a decimal computation that      *)
(* share nothing with Event.time and header.                               *)

\* the first and the last millisecond of the first days of the years 0000,
\* 0001 and 1970, of the day before 1970, of a leap day and of the last day
\* of 9999, and the instants at which the count of seconds gets a tenth and
\* an eleventh digit
Times ==
    {[day |-> d, sod |-> 0, nsec |-> 0] : d \in {-719528, -719162, -1, 0, 11016, 2932896}}
    \cup {[day |-> d, sod |-> 86399, nsec |-> 999999999] :
             d \in {-719528, -719162, -1, 0, 11016, 2932896}}
    \cup {T2019,
          [day |-> 11574, sod |-> 6399, nsec |-> 999999],
          [day |-> 11574, sod |-> 6400, nsec |-> 1000000],
          [day |-> 115740, sod |-> 63999, nsec |-> 500000000],
          [day |-> 115740, sod |-> 64000, nsec |-> 0]}

TimeLoggers ==
    {L \in LoggerValues :
        /\ L.Level = DebugLevel /\ L.Caller = 0 /\ L.HostField = <<>> /\ L.Writer = Custom
        /\ L.TimeFormat = <<>> \/ L.TimeField = <<>>}

InitTime == InitWith(TimeLoggers)

NextTime ==
    \/ \E t \in Times : WithLevel(1, "l", InfoLevel, t)
    \/ Msg(1, <<>>, FALSE)

SpecTime == InitTime /\ [][NextTime]_vars

Digits == <<"0", "1", "2", "3", "4", "5", "6", "7", "8", "9">>

RECURSIVE Pad(_, _)
\* n in decimal, w digits wide, zero-padded
Pad(n, w) == IF w = 0 THEN <<>> ELSE Pad(n \div 10, w - 1) \o <<Digits[(n % 10) + 1]>>

RECURSIVE Decimal(_)
\* n >= 0 in decimal, without leading zeros
Decimal(n) == IF n < 10 THEN <<Digits[n + 1]>> ELSE Decimal(n \div 10) \o <<Digits[(n % 10) + 1]>>

\* the civil date of the day z days after 0000-03-01
CivilFromDays(z) ==
    LET era == z \div 146097
        doe == z - era * 146097
        yoe == (doe - doe \div 1460 + doe \div 36524 - doe \div 146096) \div 365
        doy == doe - (365 * yoe + yoe \div 4 - yoe \div 100)
        mp == (5 * doy + 2) \div 153
        m == IF mp < 10 THEN mp + 3 ELSE mp - 9
    IN  [year |-> yoe + era * 400 + (IF m <= 2 THEN 1 ELSE 0),
         month |-> m,
         day |-> doy - (153 * mp + 2) \div 5 + 1]

\* the wall time t as "YYYY-MM-DDTHH:MM:SS.mmmZ" in quotes, the
\* milliseconds truncated
RFC3339Milli(t) ==
    LET d == CivilFromDays(t.day + 719468)
    IN  <<Quote>> \o Pad(d.year, 4) \o <<"-">> \o Pad(d.month, 2) \o <<"-">> \o Pad(d.day, 2)
        \o <<"T">> \o Pad(t.sod \div 3600, 2) \o <<":">> \o Pad((t.sod % 3600) \div 60, 2)
        \o <<":">> \o Pad(t.sod % 60, 2) \o <<".">> \o Pad(t.nsec \div 1000000, 3)
        \o <<"Z", Quote>>

\* d * 86400000 + r in decimal, for d >= 0 and 0 <= r <= 86400000, in limbs
\* of six digits
DayMillis(d, r) ==
    LET low == (d % 1000) * 400000 + r
        mid == (d \div 1000) * 86400 + (d % 1000) * 86 + low \div 1000000
        l0 == low % 1000000
        l1 == mid % 1000000
        l2 == mid \div 1000000
    IN  IF l2 > 0 THEN Decimal(l2) \o Pad(l1, 6) \o Pad(l0, 6)
        ELSE IF l1 > 0 THEN Decimal(l1) \o Pad(l0, 6)
        ELSE Decimal(l0)

\* seconds * 1000 + floor(nanoseconds / 1000000) of the wall time t, in
\* decimal
EpochMillis(t) ==
    LET r == t.sod * 1000 + t.nsec \div 1000000
    IN  IF t.day >= 0 THEN DayMillis(t.day, r)
        ELSE <<"-">> \o DayMillis(-t.day - 1, 86400000 - r)

\* the chain of the one call path right after its entry point returned a
\* live Event
HeaderDone == chain[1].st = "live" /\ chain[1].n = 0 /\ status = "running"

\* the time member of the header in the Event of the chain
TimeMember == Members(events[chain[1].e].buf).members[1]

FormatsTime == ~loggers["l"].Timestamp /\ loggers["l"].TimeFormat = <<>>

\* C9 as stated: the time formatter extends the buffer by exactly 27 bytes,
\* the quoted "YYYY-MM-DDTHH:MM:SS.mmmZ" of the wall time with the
\* milliseconds truncated.
C9_TimeIs27Bytes ==
    HeaderDone /\ FormatsTime =>
        /\ Len(TimeMember.value) = 27
        /\ TimeMember.value = RFC3339Milli(chain[1].t)

\* C9: for every wall time with a year of four digits, the time formatter
\* extends the buffer by exactly 26 bytes, the two quotes included: the
\* quoted "YYYY-MM-DDTHH:MM:SS.mmmZ" of the wall time, each component
\* zero-padded at its offset, mmm the milliseconds truncated.
C9_TimeIs26Bytes ==
    HeaderDone /\ FormatsTime =>
        /\ Members(events[chain[1].e].buf).ok
        /\ Len(TimeMember.value) = 26
        /\ TimeMember.value = RFC3339Milli(chain[1].t)
        /\ TimeMember.key = TimeKey(loggers["l"])

\* the last millisecond of the year 9999 was formatted into an Event that
\* came from the pool
C9_Witness ==
    /\ HeaderDone /\ FormatsTime
    /\ chain[1].t = [day |-> 2932896, sod |-> 86399, nsec |-> 999999999]
    /\ calls.header = 2
    /\ TimeMember.value = <<Quote, "9", "9", "9", "9", "-", "1", "2", "-", "3", "1", "T",
                             "2", "3", ":", "5", "9", ":", "5", "9", ".", "9", "9", "9",
                             "Z", Quote>>

\* C10: with the Timestamp flag the time value of every record is a bare
\* integer, seconds * 1000 + floor(nanoseconds / 1000000) of the wall time,
\* under the key time whatever TimeField and TimeFormat are; without the
\* flag it is a quoted string.
C10_TimestampIsEpochMillis ==
    /\ status # "panicked"
    /\ HeaderDone =>
          /\ Members(events[chain[1].e].buf).ok
          /\ IF loggers["l"].Timestamp
             THEN /\ TimeMember.key = <<"t", "i", "m", "e">>
                  /\ TimeMember.value = EpochMillis(chain[1].t)
             ELSE /\ TimeMember.value[1] = Quote
                  /\ TimeMember.value[Len(TimeMember.value)] = Quote

\* the same for the wall times whose count of seconds has ten digits
C10_TenDigitSeconds ==
    chain[1].t \in {T2019, [day |-> 11574, sod |-> 6400, nsec |-> 1000000],
                    [day |-> 115740, sod |-> 63999, nsec |-> 500000000]}
        => C10_TimestampIsEpochMillis

----------------------------------------------------------------------------
(* The program of SpecPrint: one call path calls Print and Printf of the   *)
(* package and of a Logger l built with any minimum level, and SetLevel    *)
(* changes the level of DefaultLogger.                                     *)

PrintLoggers ==
    {L \in LoggerValues :
        /\ L.Writer = Custom /\ L.HostField = <<>> /\ L.TimeField = <<>>
        /\ L.TimeFormat = <<>> /\ ~L.Timestamp}

InitPrint == InitWith(PrintLoggers)

NextPrint ==
    \/ \E l \in Loggers, out \in {<<>>, <<"h", "i">>} : LoggerPrint(1, l, out, T2019, FALSE)
    \/ \E l \in Loggers, out \in {<<>>, <<"h", "i">>} : Printf(1, l, out, T2019, FALSE)
    \/ \E level \in {InfoLevel, FatalLevel} : SetLevel("DefaultLogger", level)

SpecPrint == InitPrint /\ [][NextPrint]_vars

\* the value of the member with the key k of the record s, <<>> without one
MemberValue(s, k) ==
    LET ms == Members(s).members
    IN  IF \E i \in 1..Len(ms) : ms[i].key = k
        THEN ms[CHOOSE i \in 1..Len(ms) : ms[i].key = k].value
        ELSE <<>>

\* C11: Print and Printf, of the package and of a Logger, send a record at
\* the debug level with no field besides the message, whatever the minimum
\* level of the logger is: the record has the level "debug", and the call
\* sets neither the stack nor the exit flag, so it writes no stack trace
\* and does not end the process.
C11_PrintIsDebug ==
    last.op \in {"Print", "Printf"} =>
        /\ status = "running"
        /\ ~last.stack /\ ~last.exit
        /\ Len(Writes) = 1
        /\ MemberValue(Writes[1].data, <<"l", "e", "v", "e", "l">>)
              = <<Quote, "d", "e", "b", "u", "g", Quote>>
        /\ MemberKeys(Writes[1].data)
              = <<<<"t", "i", "m", "e">>, <<"l", "e", "v", "e", "l">>>>
                \o (IF last.msg # <<>> THEN <<<<"m", "e", "s", "s", "a", "g", "e">>>> ELSE <<>>)

\* the same for the loggers whose minimum level is debug and that do not
\* add the caller
C11_PrintAtDebugMinimum ==
    loggers[last.l].Level = DebugLevel /\ loggers[last.l].Caller = 0 => C11_PrintIsDebug

(***************************************************************************)
(* The console pretty-printer.  ConsoleWriter is exercised by              *)
(* console_test.go; what Write does with a line is taken from the          *)
(* description of the printer: parse the line as JSON objects, render each *)
(* one, and write anything else through as it came.                        *)
(***************************************************************************)

\* the level strings of TestConsoleWriter
ConsoleLevels ==
    {<<"d", "e", "b", "u", "g">>, <<"i", "n", "f", "o">>,
     <<"w", "a", "r", "n", "i", "n", "g">>, <<"e", "r", "r", "o", "r">>,
     <<"f", "a", "t", "a", "l">>, <<"p", "a", "n", "i", "c">>,
     <<"h", "a", "h", "a", "h", "a">>}

\* the line of TestConsoleWriter up to the level, and after it
ConsolePrefix ==
    <<"{", Quote, "t", "i", "m", "e", Quote, ":", Quote, "2", "0", "1", "9", "-", "0", "7",
      "-", "1", "0", "T", "0", "5", ":", "3", "5", ":", "5", "4", ".", "2", "7", "7", "Z",
      Quote, ",", Quote, "l", "e", "v", "e", "l", Quote, ":", Quote>>

ConsoleSuffix ==
    <<Quote, ",", Quote, "c", "a", "l", "l", "e", "r", Quote, ":", Quote, "t", "e", "s", "t",
      ".", "g", "o", ":", "4", "2", Quote, ",", Quote, "e", "r", "r", "o", "r", Quote, ":",
      Quote, "i", " ", "a", "m", " ", "t", "e", "s", "t", " ", "e", "r", "r", "o", "r", Quote,
      ",", Quote, "f", "o", "o", Quote, ":", Quote, "b", "a", "r", Quote, ",", Quote, "n",
      Quote, ":", "4", "2", ",", Quote, "m", "e", "s", "s", "a", "g", "e", Quote, ":", Quote,
      "h", "e", "l", "l", "o", " ", "j", "s", "o", "n", " ", "c", "o", "n", "s", "o", "l",
      "e", " ", "w", "r", "i", "t", "e", "r", Quote, "}", "<0a>">>

\* the line of TestConsoleWriterNewline: the message ends with an escaped
\* newline, and no newline ends the line
NewlineLine ==
    <<"{", Quote, "t", "i", "m", "e", Quote, ":", Quote, "2", "0", "1", "9", "-", "0", "7",
      "-", "1", "0", "T", "0", "5", ":", "3", "5", ":", "5", "4", ".", "2", "7", "7", "Z",
      Quote, ",", Quote, "l", "e", "v", "e", "l", Quote, ":", Quote, "i", "n", "f", "o",
      Quote, ",", Quote, "c", "a", "l", "l", "e", "r", Quote, ":", Quote, "p", "r", "e", "t",
      "t", "y", ".", "g", "o", ":", "4", "2", Quote, ",", Quote, "e", "r", "r", "o", "r",
      Quote, ":", Quote, "i", " ", "a", "m", " ", "t", "e", "s", "t", " ", "e", "r", "r", "o",
      "r", Quote, ",", Quote, "f", "o", "o", Quote, ":", Quote, "b", "a", "r", Quote, ",",
      Quote, "n", Quote, ":", "4", "2", ",", Quote, "m", "e", "s", "s", "a", "g", "e", Quote,
      ":", Quote, "h", "e", "l", "l", "o", " ", "j", "s", "o", "n", " ", "c", "o", "n", "s",
      "o", "l", "e", " ", "c", "o", "l", "o", "r", " ", "w", "r", "i", "t", "e", "r",
      Backslash, "n", Quote, "}">>

\* the input of TestConsoleWriterInvaild
PlainText ==
    <<"a", " ", "l", "o", "n", "g", " ", "l", "o", "n", "g", " ", "l", "o", "n", "g", " ",
      "l", "o", "n", "g", " ", "p", "l", "a", "i", "n", " ", "t", "e", "x", "t">>

\* a record as the encoder writes it
EncoderLine ==
    <<"{", Quote, "t", "i", "m", "e", Quote, ":", Quote, "2", "0", "1", "9", "-", "0", "7",
      "-", "1", "0", "T", "0", "5", ":", "3", "5", ":", "5", "4", ".", "2", "7", "7", "Z",
      Quote, ",", Quote, "l", "e", "v", "e", "l", Quote, ":", Quote, "w", "a", "r", "n",
      Quote, ",", Quote, "m", "e", "s", "s", "a", "g", "e", Quote, ":", Quote, "h", "i",
      Quote, "}", "<0a>">>

\* an object that does not end
TruncatedLine ==
    <<"{", Quote, "t", "i", "m", "e", Quote, ":", Quote, "2", "0", "1", "9", "-", "0", "7",
      "-", "1", "0", "T", "0", "5", ":", "3", "5", ":", "5", "4", ".", "2", "7", "7", "Z",
      Quote, ",", Quote, "l", "e", "v", "e", "l", Quote, ":", Quote, "i", "n", "f", "o", Quote>>

\* an object followed by bytes that are no object
TrailingLine ==
    <<"{", Quote, "l", "e", "v", "e", "l", Quote, ":", Quote, "i", "n", "f", "o", Quote, ",",
      Quote, "m", "e", "s", "s", "a", "g", "e", Quote, ":", Quote, "h", "i", Quote, "}", "x">>

\* an object whose value is no JSON value
BareValueLine ==
    <<"{", Quote, "l", "e", "v", "e", "l", Quote, ":", "i", "n", "f", "o", "}", "<0a>">>

TestMessage ==
    <<"h", "e", "l", "l", "o", " ", "j", "s", "o", "n", " ", "c", "o", "n", "s", "o", "l",
      "e", " ", "w", "r", "i", "t", "e", "r">>

\* the line TestConsoleWriter writes for a level
ConsoleLine(level) == ConsolePrefix \o level \o ConsoleSuffix

\* two records in one write
TwoLines == EncoderLine \o ConsoleLine(<<"i", "n", "f", "o">>)

\* the inputs that are JSON objects, one to a line
WellFormed == {ConsoleLine(level) : level \in ConsoleLevels} \cup {NewlineLine, EncoderLine, TwoLines}

\* the inputs that are not
Malformed == {PlainText, <<>>, TruncatedLine, TrailingLine, BareValueLine}

ConsoleInputs == WellFormed \cup Malformed

\* a JSON number without an exponent, or one of the three literals
PlainJSON(v) ==
    \/ v \in {<<"t", "r", "u", "e">>, <<"f", "a", "l", "s", "e">>, <<"n", "u", "l", "l">>}
    \/ LET d == IF v[1] = "-" THEN Tail(v) ELSE v
       IN  /\ d # <<>>
           /\ \A i \in 1..Len(d) : d[i] = "." \/ \E k \in 1..10 : Digits[k] = d[i]
           /\ d[1] # "." /\ d[Len(d)] # "."
           /\ Cardinality({i \in 1..Len(d) : d[i] = "."}) <= 1

\* a member whose key is a JSON string and whose value is a JSON string, a
\* number or a literal
ValidMember(m) ==
    /\ ParseString(<<Quote>> \o m.key \o <<Quote>>).ok
    /\ IF m.value[1] = Quote THEN ParseString(m.value).ok ELSE PlainJSON(m.value)

NoRecords == [ok |-> FALSE, records |-> <<>>]

RECURSIVE ParseRecords(_, _)
\* the input decoded as JSON objects, each on its own line or directly after
\* the one before; acc: the objects decoded so far
ParseRecords(s, acc) ==
    IF s = <<>> THEN [ok |-> acc # <<>>, records |-> acc]
    ELSE IF s[1] = "<0a>" THEN ParseRecords(Tail(s), acc)
    ELSE IF Len(s) >= 2 /\ s[1] = "{" /\ s[2] = "}"
         THEN ParseRecords(SubSeq(s, 3, Len(s)), Append(acc, <<>>))
    ELSE LET m == Members(s)
         IN  IF \/ ~m.ok
                \/ m.rest = <<>>
                \/ m.rest[1] # "}"
                \/ \E i \in 1..Len(m.members) : ~ValidMember(m.members[i])
             THEN NoRecords
             ELSE ParseRecords(Tail(m.rest), Append(acc, m.members))

\* what a JSON value stands for: the bytes of a string, the text of a number
\* or a literal
ValueText(v) == IF v[1] = Quote THEN ParseString(v).bytes ELSE v

\* the keys of the well-known slots
TimeSlot == <<"t", "i", "m", "e">>
LevelSlot == <<"l", "e", "v", "e", "l">>
CallerSlot == <<"c", "a", "l", "l", "e", "r">>
MessageSlot == <<"m", "e", "s", "s", "a", "g", "e">>
ErrorSlot == <<"e", "r", "r", "o", "r">>
Slots == {TimeSlot, LevelSlot, CallerSlot, MessageSlot, ErrorSlot}

\* the text of the slot k of a record, empty without one
Slot(ms, k) ==
    IF \E i \in 1..Len(ms) : ms[i].key = k
    THEN ValueText(ms[CHOOSE i \in 1..Len(ms) : ms[i].key = k].value)
    ELSE <<>>

\* the time of day of an RFC 3339 time, any other text as it is
ShortTime(t) == IF Len(t) >= 23 /\ t[11] = "T" THEN SubSeq(t, 12, 23) ELSE t

LowerCase ==
    <<"a", "b", "c", "d", "e", "f", "g", "h", "i", "j", "k", "l", "m",
      "n", "o", "p", "q", "r", "s", "t", "u", "v", "w", "x", "y", "z">>
UpperCase ==
    <<"A", "B", "C", "D", "E", "F", "G", "H", "I", "J", "K", "L", "M",
      "N", "O", "P", "Q", "R", "S", "T", "U", "V", "W", "X", "Y", "Z">>

ToUpper(s) ==
    [i \in 1..Len(s) |->
        IF \E k \in 1..26 : LowerCase[k] = s[i]
        THEN UpperCase[CHOOSE k \in 1..26 : LowerCase[k] = s[i]]
        ELSE s[i]]

\* the levels that have a style of their own
StyledLevels ==
    {<<"d", "e", "b", "u", "g">>, <<"i", "n", "f", "o">>, <<"w", "a", "r", "n">>,
     <<"e", "r", "r", "o", "r">>, <<"f", "a", "t", "a", "l">>, <<"p", "a", "n", "i", "c">>}

\* the level tag: upper case and as wide as the widest, an unrecognized
\* level as it is
LevelTag(level) ==
    IF level \in StyledLevels
    THEN ToUpper(level) \o [i \in 1..(5 - Len(level)) |-> " "]
    ELSE level

Escape == "<1b>"
Reset == <<Escape, "[", "0", "m">>

\* the ANSI style of a level, none for info and for an unrecognized level
LevelStyle(level) ==
    CASE level = <<"d", "e", "b", "u", "g">> -> <<Escape, "[", "2", "m">>
      [] level = <<"w", "a", "r", "n">> -> <<Escape, "[", "1", ";", "3", "3", "m">>
      [] level = <<"e", "r", "r", "o", "r">> -> <<Escape, "[", "1", ";", "3", "1", "m">>
      [] level \in {<<"f", "a", "t", "a", "l">>, <<"p", "a", "n", "i", "c">>} ->
            <<Escape, "[", "4", "1", "m">>
      [] OTHER -> <<>>

\* text in a style, when color is on and there is a style
Styled(color, style, text) ==
    IF color /\ style # <<>> THEN style \o text \o Reset ELSE text

RECURSIVE TrimNewlines(_)
\* text without the newlines that end it
TrimNewlines(s) ==
    IF s # <<>> /\ s[Len(s)] = "<0a>" THEN TrimNewlines(SubSeq(s, 1, Len(s) - 1)) ELSE s

\* a value of an extra field, quoted again when it is empty or holds
\* white space
Requoted(v) ==
    IF v = <<>> \/ \E i \in 1..Len(v) : v[i] \in {" ", "<09>", "<0a>", "<0d>"}
    THEN <<Quote>> \o v \o <<Quote>>
    ELSE v

RECURSIVE Extras(_, _)
\* the fields outside the slots as key=value, in the order of the record
Extras(ms, i) ==
    IF i > Len(ms) THEN <<>>
    ELSE (IF ms[i].key \in Slots THEN <<>>
          ELSE <<" ">> \o ms[i].key \o <<"=">> \o Requoted(ValueText(ms[i].value)))
         \o Extras(ms, i + 1)

\* one record on a terminal line: time, level tag, caller, message, error,
\* extra fields
Render(ms, color) ==
    LET level == Slot(ms, LevelSlot)
        from == Slot(ms, CallerSlot)
        err == Slot(ms, ErrorSlot)
    IN  ShortTime(Slot(ms, TimeSlot))
        \o <<" ">> \o Styled(color, LevelStyle(level), LevelTag(level))
        \o (IF from # <<>> THEN <<" ", "[">> \o from \o <<"]">> ELSE <<>>)
        \o <<" ">> \o TrimNewlines(Slot(ms, MessageSlot))
        \o (IF err # <<>>
            THEN <<" ">> \o Styled(color, <<Escape, "[", "3", "1", "m">>,
                                   ErrorSlot \o <<"=">> \o err)
            ELSE <<>>)
        \o Extras(ms, 1)
        \o <<"<0a>">>

RECURSIVE RenderAll(_, _, _)
RenderAll(records, i, color) ==
    IF i > Len(records) THEN <<>>
    ELSE Render(records[i], color) \o RenderAll(records, i + 1, color)

\* what Write hands to the terminal: the rendering of the records, or the
\* input as it came when it is not JSON objects
consoleOut(p, color) ==
    LET parsed == ParseRecords(p, <<>>)
    IN  IF parsed.ok THEN RenderAll(parsed.records, 1, color) ELSE p

\* a Write that reports the decoding error of its input
consoleErrOfInput(parsed, werr) == ~parsed \/ werr

\* the error Write returns: the error of the write to the terminal, and
\* none for an input that did not decode
consoleErr(parsed, werr) == werr

\* ConsoleWriter.Write(p) on a ConsoleWriter{ANSIColor: color}; werr:
\* whether the write to the terminal fails
ConsoleWrite(color, p, werr) ==
    /\ status = "running"
    /\ calls.header < MaxRecords
    /\ calls' = [calls EXCEPT !.header = @ + 1]
    /\ trace' = <<WriteCall(Stderr, consoleOut(p, color), werr)>>
    /\ last' = [op |-> "ConsoleWriter.Write", p |-> p, ANSIColor |-> color,
                err |-> consoleErr(ParseRecords(p, <<>>).ok, werr)]
    /\ UNCHANGED <<loggers, events, epool, bbs, bbpool, chain, status>>

InitConsole == InitWith({DefaultLogger})

NextConsole == \E color \in BOOLEAN, p \in ConsoleInputs, werr \in BOOLEAN : ConsoleWrite(color, p, werr)

SpecConsole == InitConsole /\ [][NextConsole]_vars

\* whether sub is a run of bytes of s
Contains(s, sub) ==
    \E i \in 1..(Len(s) - Len(sub) + 1) : SubSeq(s, i, i + Len(sub) - 1) = sub

----------------------------------------------------------------------------
(* The program of SpecReuse: one call path logs record after record on     *)
(* DefaultLogger and on l, which differ in the time key and in the Writer, *)
(* at two wall times; a chain may call Stack and ends with Discard or Msg,  *)
(* so that header meets Events with any earlier use.                       *)

\* 2000-02-29T23:59:59.999999999Z
T2000 == [day |-> 11016, sod |-> 86399, nsec |-> 999999999]

ReuseLoggers ==
    {L \in LoggerValues :
        /\ L.Level = DebugLevel /\ L.Caller = 0 /\ L.HostField = <<>>
        /\ L.TimeField # <<>>
        /\ ~L.Timestamp \/ L.TimeFormat = <<>>}

InitReuse == InitWith(ReuseLoggers)

NextReuse ==
    \/ \E l \in Loggers, t \in {T2019, T2000} : WithLevel(1, l, DebugLevel, t)
    \/ \E l \in Loggers : WithLevel(1, l, FatalLevel, T2000)
    \/ Stack(1)
    \/ Discard(1)
    \/ Msg(1, <<"h", "i">>, FALSE)

SpecReuse == InitReuse /\ [][NextReuse]_vars

\* the names of the levels in a record
LevelNames ==
    <<<<"d", "e", "b", "u", "g">>, <<"i", "n", "f", "o">>, <<"w", "a", "r", "n">>,
      <<"e", "r", "r", "o", "r">>, <<"f", "a", "t", "a", "l">>>>

\* the header of a record of the Logger L at the level and the wall time t,
\* when L formats the time itself
FreshHeader(L, level, t) ==
    <<"{", Quote>> \o TimeKey(L) \o <<Quote, ":">> \o RFC3339Milli(t)
    \o <<",", Quote, "l", "e", "v", "e", "l", Quote, ":", Quote>>
    \o LevelNames[level + 1] \o <<Quote>>

\* C13: a record does not depend on the earlier uses of the pooled Event
\* it is built in.  When header returns an Event, its buffer holds the bytes
\* this header call wrote and no others, the same bytes as in a new Event
\* (the 26 bytes the time formatter takes from the spare capacity are all
\* written again); its stack and exit flags are (level = fatal), whatever
\* Stack() set before; and its sink is the Writer of the logger, os.Stderr
\* when the logger has none.
C13_HeaderIsFresh ==
    HeaderDone =>
        LET ev == events[chain[1].e]
            L == loggers[chain[1].l]
        IN  /\ ev.buf = headerBuf(L, chain[1].level, chain[1].t, <<>>, epoolNew.cap)
            /\ ~L.Timestamp /\ L.TimeFormat = <<>> =>
                  ev.buf = FreshHeader(L, chain[1].level, chain[1].t)
            /\ ev.stack = (chain[1].level = FatalLevel)
            /\ ev.exit = (chain[1].level = FatalLevel)
            /\ ev.w = IF L.Writer = NoWriter THEN Stderr ELSE L.Writer

\* the second header call of the program returned the one Event there is,
\* which an earlier chain used and gave back, for a debug record of l at the
\* later wall time, with the flags down and the Writer of l
C13_Witness ==
    /\ HeaderDone
    /\ calls.header = 2
    /\ chain[1].e = 1 /\ \A id \in EventIds \ {1} : ~events[id].made
    /\ chain[1].l = "l" /\ chain[1].level = DebugLevel /\ chain[1].t = T2019
    /\ loggers["l"].TimeField # <<>> /\ ~loggers["l"].Timestamp
    /\ loggers["l"].TimeFormat = <<>> /\ loggers["l"].Writer = Custom
    /\ events[1].buf = FreshHeader(loggers["l"], DebugLevel, T2019)
    /\ ~events[1].stack /\ ~events[1].exit /\ events[1].w = Custom

====
